---- MODULE Spec2Model ----
(***************************************************************************)
(* The simulated filesystem of madsim (src/src/fs.rs) and the kill entry   *)
(* point of the runtime handle (src/madsim/src/lib.rs).                    *)
(*                                                                         *)
(* FileSystemRuntime keeps a mutex-guarded map from address to an          *)
(* Arc<FileSystem>; a FileSystem keeps a mutex-guarded map from path to an *)
(* Arc<INode>; an INode keeps its bytes behind an RwLock.  Every operation *)
(* is split at its lock acquisition and at the steps it performs inside    *)
(* the critical section, so that tasks interleave wherever threads could.  *)
(***************************************************************************)
EXTENDS Integers, Sequences, FiniteSets, TLC

Addr == {"a1", "a2"}
Path == {"p1", "p2"}
Task == {"t1", "t2"}
Byte == {0, 1}

\* Longest file content and longest caller buffer explored.
MaxLen == 3
MaxBuf == 2

NoTask == "no_task"
NoAddr == "no_addr"
NoPath == "no_path"
NoContext == "no_context"

\* The address whose executor queue owns the task (LocalHandle::spawn).
Owner(t) == IF t = "t1" THEN "a1" ELSE "a2"

VARIABLES
    handles,       \* FileSystemRuntime.handles: addr -> disk reference (0: no entry)
    handles_lock,  \* holder of the Mutex around FileSystemRuntime.handles
    disks,         \* every FileSystem allocated so far; the index is the Arc's identity
    inodes,        \* every INode allocated so far; the index is the Arc's identity
    tasks,         \* per task: position, handles held, locals of the running operation
    last,          \* what the operation that returned last gave its caller
    created,       \* <<disk, path>> of every create that has returned
    block_on,      \* whether the calling thread is inside Runtime::block_on
    context        \* the thread's ambient context cell: the Handle, or none

vars == <<handles, handles_lock, disks, inodes, tasks, last, created,
          block_on, context>>

Min(a, b) == IF a < b THEN a ELSE b
Max(a, b) == IF a > b THEN a ELSE b

SeqsUpTo(S, n) == UNION {[1..k -> S] : k \in 0..n}

\* Payloads of write_all_at and buffers handed to read_at.
Bufs == SeqsUpTo(Byte, MaxBuf)
ReadBufs == {[i \in 1..n |-> b] : n \in 0..MaxBuf, b \in Byte}

-----------------------------------------------------------------------------
(* Constructors *)

\* FileSystem::new
FileSystemNew(addr) ==
    [addr |-> addr, lock |-> NoTask, fs |-> [p \in Path |-> 0]]

\* INode::new
INodeNew(path) ==
    [path |-> path, data |-> <<>>, poisoned |-> FALSE,
     writer |-> NoTask, readers |-> {}]

\* A task between two filesystem operations; fs and file are what it holds.
Locals ==
    [addr |-> NoAddr, path |-> NoPath, buf |-> <<>>, offset |-> 0,
     size |-> 0, old |-> <<>>]

NotSpawned ==
    [pc |-> "none", doomed |-> FALSE, fs |-> 0, file |-> 0, can_write |-> FALSE,
     loc |-> Locals]

Spawned ==
    [pc |-> "idle", doomed |-> FALSE, fs |-> 0, file |-> 0, can_write |-> FALSE,
     loc |-> Locals]

\* The call that returned last: who made it, what it was given (file, offset,
\* buf) and what it gave back (res, and for read_at the count n and the buffer
\* as the call left it).
NoResult ==
    [t |-> NoTask, op |-> "none", res |-> "none", file |-> 0, offset |-> 0,
     buf |-> <<>>, n |-> 0]

Result(t, op, res) == [NoResult EXCEPT !.t = t, !.op = op, !.res = res]

FileResult(t, op, res, file, offset, buf, n) ==
    [t |-> t, op |-> op, res |-> res, file |-> file, offset |-> offset,
     buf |-> buf, n |-> n]

-----------------------------------------------------------------------------
(* The bodies of the File operations, as functions of the inode's bytes *)

\* Fault: read_at copies from the start of the content, not from offset.
ReadAt_FromStart(data, buf, offset) ==
    LET end == Min(Len(data), offset + Len(buf))
    IN  IF end < offset
        THEN [res |-> "Panic", n |-> 0, buf |-> buf]
        ELSE LET len == end - offset
             IN  [res |-> "Ok", n |-> len,
                  buf |-> [i \in 1..Len(buf) |->
                              IF i <= len THEN data[i] ELSE buf[i]]]

\* File::read_at, lines 118-122: the subtraction of line 119 panics when the
\* offset is past the end (overflow check, or the slice bounds of line 120).
ReadAt(data, buf, offset) ==
    LET end == Min(Len(data), offset + Len(buf))
    IN  IF end < offset
        THEN [res |-> "Panic", n |-> 0, buf |-> buf]
        ELSE LET len == end - offset
             IN  [res |-> "Ok", n |-> len,
                  buf |-> [i \in 1..Len(buf) |->
                              IF i <= len THEN data[offset + i] ELSE buf[i]]]

\* File::write_all_at, lines 139-140: how many bytes of buf land on existing
\* bytes; -1 stands for the panic of the subtraction when offset > data.len().
WriteOverlap(data, buf, offset) ==
    LET end == Min(Len(data), offset + Len(buf))
    IN  IF end < offset THEN -1 ELSE end - offset

\* File::write_all_at, line 141: data[offset..end].copy_from_slice(&buf[..len])
WriteCopyFromSlice(data, buf, offset, len) ==
    [i \in 1..Len(data) |->
        IF offset < i /\ i <= offset + len THEN buf[i - offset] ELSE data[i]]

\* File::write_all_at, lines 142-144: data.extend_from_slice(&buf[len..])
WriteExtendFromSlice(data, buf, len) ==
    data \o SubSeq(buf, len + 1, Len(buf))

\* File::set_len, line 153: data.resize(size, 0)
Resize(data, size) ==
    [i \in 1..size |-> IF i <= Len(data) THEN data[i] ELSE 0]

-----------------------------------------------------------------------------
(* Locks *)

\* Fault: handle() does not wait for the registry's mutex.
HandlesLockFree_Always == TRUE

\* Mutex::lock on FileSystemRuntime.handles (line 29) can proceed.
HandlesLockFree == handles_lock = NoTask

\* Fault: open() and create() do not wait for the path map's mutex.
FsLockFree_Always(d) == TRUE

\* Mutex::lock on FileSystem.fs (lines 61, 78) can proceed.
FsLockFree(d) == disks[d].lock = NoTask

\* Fault: a reader does not wait for the writer inside the inode.
CanRead_Always(i) == TRUE

\* RwLock::read on INode.data (line 117) can proceed.
CanRead(i) == inodes[i].writer = NoTask

\* RwLock::write on INode.data (lines 138, 152) can proceed.
CanWrite(i) == inodes[i].writer = NoTask /\ inodes[i].readers = {}

-----------------------------------------------------------------------------
Init ==
    /\ handles = [a \in Addr |-> 0]
    /\ handles_lock = NoTask
    /\ disks = <<>>
    /\ inodes = <<>>
    /\ tasks = [t \in Task |-> NotSpawned]
    /\ last = NoResult
    /\ created = {}
    /\ block_on = FALSE
    /\ context = NoContext

\* The task after an operation returns: it is dropped if its address was
\* killed while the operation ran, and otherwise goes on.
Return(t, upd) ==
    IF tasks[t].doomed
    THEN NotSpawned
    ELSE [upd EXCEPT !.pc = "idle", !.loc = Locals]

\* Runtime::block_on (lib.rs 61-64) drives every task on the calling thread:
\* tasks take steps while the call is active.
Running == block_on

-----------------------------------------------------------------------------
(* Runtime::block_on, lib.rs 61-64, and Handle::current, lib.rs 76-79 *)

\* context::enter: the Handle is stored in the cell; the guard returned clears
\* the cell when it is dropped.
ContextEnter == "handle"

ContextGuardDrop == NoContext

\* Fault: the guard is not bound, so it is dropped as soon as it is made.
BlockOnEnter_Unbound ==
    /\ ~block_on
    /\ block_on' = TRUE
    /\ context' = ContextGuardDrop
    /\ UNCHANGED <<handles, handles_lock, disks, inodes, tasks, last, created>>

\* line 62: let _guard = context::enter(self.handle()), then line 63 starts
\* to drive the tasks
BlockOnEnter ==
    /\ ~block_on
    /\ block_on' = TRUE
    /\ context' = ContextEnter
    /\ UNCHANGED <<handles, handles_lock, disks, inodes, tasks, last, created>>

\* Fault: the guard is forgotten, not dropped, when the call returns.
BlockOnExit_Forget ==
    /\ Running
    /\ block_on' = FALSE
    /\ UNCHANGED <<handles, handles_lock, disks, inodes, tasks, last, created,
                   context>>

\* lines 63-64: the future given to block_on completes, whatever the spawned
\* tasks are doing; _guard goes out of scope
BlockOnExit ==
    /\ Running
    /\ block_on' = FALSE
    /\ context' = ContextGuardDrop
    /\ UNCHANGED <<handles, handles_lock, disks, inodes, tasks, last, created>>

\* lines 63-64: the panic of the call that ended last is not caught inside
\* the work: it unwinds through block_on and drops _guard on the way
BlockOnUnwind ==
    /\ block_on
    /\ last.res = "Panic"
    /\ block_on' = FALSE
    /\ context' = ContextGuardDrop
    /\ UNCHANGED <<handles, handles_lock, disks, inodes, tasks, last, created>>

\* Handle::current, line 78: context::current().expect("no madsim context")
Current ==
    /\ last' = Result(NoTask, "current", IF context = NoContext THEN "Panic" ELSE "Ok")
    /\ UNCHANGED <<handles, handles_lock, disks, inodes, tasks, created,
                   block_on, context>>

\* LocalHandle::spawn
Spawn(t) ==
    /\ Running
    /\ tasks[t].pc = "none"
    /\ tasks' = [tasks EXCEPT ![t] = Spawned]
    /\ UNCHANGED <<handles, handles_lock, disks, inodes, last, created, block_on, context>>

-----------------------------------------------------------------------------
(* FileSystemRuntime::handle, lines 28-34 *)

\* lines 29-31: lock the registry and look the address up; an occupied entry
\* is cloned and returned at once (the guard is dropped), a vacant one leaves
\* the task inside the critical section, about to insert
HandleEntry(t, a) ==
    /\ Running
    /\ tasks[t].pc = "idle"
    /\ HandlesLockFree
    /\ IF handles[a] # 0
       THEN /\ tasks' = [tasks EXCEPT ![t] =
                            Return(t, [tasks[t] EXCEPT !.fs = handles[a]])]
            /\ last' = Result(t, "handle", "Ok")
            /\ UNCHANGED handles_lock
       ELSE /\ tasks' = [tasks EXCEPT ![t].pc = "handle_new", ![t].loc.addr = a]
            /\ handles_lock' = t
            /\ UNCHANGED last
    /\ UNCHANGED <<handles, disks, inodes, created, block_on, context>>

\* Fault: a vacant entry is filled with a disk that exists already, so two
\* addresses come to share one FileSystem.
HandleInsert_Reuse(t) ==
    /\ Running
    /\ tasks[t].pc = "handle_new"
    /\ LET a == tasks[t].loc.addr
           d == IF Len(disks) > 0 THEN 1 ELSE Len(disks) + 1
       IN  /\ disks' = IF Len(disks) > 0 THEN disks ELSE Append(disks, FileSystemNew(a))
           /\ handles' = [handles EXCEPT ![a] = d]
           /\ tasks' = [tasks EXCEPT ![t] = Return(t, [tasks[t] EXCEPT !.fs = d])]
    /\ handles_lock' = NoTask
    /\ last' = Result(t, "handle", "Ok")
    /\ UNCHANGED <<inodes, created, block_on, context>>

\* line 32: or_insert_with(|| Arc::new(FileSystem::new(addr))) on the vacant
\* entry, then clone, return, drop the guard
HandleInsert(t) ==
    /\ Running
    /\ tasks[t].pc = "handle_new"
    /\ LET a == tasks[t].loc.addr
           d == Len(disks) + 1
       IN  /\ disks' = Append(disks, FileSystemNew(a))
           /\ handles' = [handles EXCEPT ![a] = d]
           /\ tasks' = [tasks EXCEPT ![t] = Return(t, [tasks[t] EXCEPT !.fs = d])]
    /\ handles_lock' = NoTask
    /\ last' = Result(t, "handle", "Ok")
    /\ UNCHANGED <<inodes, created, block_on, context>>

-----------------------------------------------------------------------------
(* FileSystem::open, lines 58-73 *)

\* Fault: open() inserts a missing path, as create() does.
Open_OrInsert(t, p) ==
    /\ Running
    /\ tasks[t].pc = "idle"
    /\ tasks[t].fs # 0
    /\ FsLockFree(tasks[t].fs)
    /\ LET d == tasks[t].fs
           i == IF disks[d].fs[p] = 0 THEN Len(inodes) + 1 ELSE disks[d].fs[p]
       IN  /\ inodes' = IF disks[d].fs[p] = 0
                        THEN Append(inodes, INodeNew(p)) ELSE inodes
           /\ disks' = [disks EXCEPT ![d].fs[p] = i]
           /\ tasks' = [tasks EXCEPT ![t] =
                           Return(t, [tasks[t] EXCEPT !.file = i,
                                                     !.can_write = FALSE])]
    /\ last' = Result(t, "open", "Ok")
    /\ UNCHANGED <<handles, handles_lock, created, block_on, context>>

\* Fault: open() hands out a read-write File.
Open_ReadWrite(t, p) ==
    /\ Running
    /\ tasks[t].pc = "idle"
    /\ tasks[t].fs # 0
    /\ FsLockFree(tasks[t].fs)
    /\ LET i == disks[tasks[t].fs].fs[p]
       IN  IF i = 0
           THEN /\ tasks' = [tasks EXCEPT ![t] = Return(t, tasks[t])]
                /\ last' = Result(t, "open", "NotFound")
           ELSE /\ tasks' = [tasks EXCEPT ![t] =
                                Return(t, [tasks[t] EXCEPT !.file = i,
                                                          !.can_write = TRUE])]
                /\ last' = Result(t, "open", "Ok")
    /\ UNCHANGED <<handles, handles_lock, disks, inodes, created, block_on, context>>

\* lines 61-72: under the path map's lock, get(path); NotFound when absent,
\* else a read-only File; the guard is dropped on both paths
Open(t, p) ==
    /\ Running
    /\ tasks[t].pc = "idle"
    /\ tasks[t].fs # 0
    /\ FsLockFree(tasks[t].fs)
    /\ LET i == disks[tasks[t].fs].fs[p]
       IN  IF i = 0
           THEN /\ tasks' = [tasks EXCEPT ![t] = Return(t, tasks[t])]
                /\ last' = Result(t, "open", "NotFound")
           ELSE /\ tasks' = [tasks EXCEPT ![t] =
                                Return(t, [tasks[t] EXCEPT !.file = i,
                                                          !.can_write = FALSE])]
                /\ last' = Result(t, "open", "Ok")
    /\ UNCHANGED <<handles, handles_lock, disks, inodes, created, block_on, context>>

-----------------------------------------------------------------------------
(* FileSystem::create, lines 75-87 *)

\* lines 78-80: lock the path map and look the path up; an occupied entry is
\* cloned and returned as a read-write File, a vacant one leaves the task
\* inside the critical section, about to insert
CreateEntry(t, p) ==
    /\ Running
    /\ tasks[t].pc = "idle"
    /\ tasks[t].fs # 0
    /\ FsLockFree(tasks[t].fs)
    /\ LET d == tasks[t].fs
           i == disks[d].fs[p]
       IN  IF i # 0
           THEN /\ tasks' = [tasks EXCEPT ![t] =
                                Return(t, [tasks[t] EXCEPT !.file = i,
                                                          !.can_write = TRUE])]
                /\ last' = Result(t, "create", "Ok")
                /\ created' = created \cup {<<d, p>>}
                /\ UNCHANGED disks
           ELSE /\ tasks' = [tasks EXCEPT ![t].pc = "create_new", ![t].loc.path = p]
                /\ disks' = [disks EXCEPT ![d].lock = t]
                /\ UNCHANGED <<last, created>>
    /\ UNCHANGED <<handles, handles_lock, inodes, block_on, context>>

\* lines 81-86: or_insert_with(|| Arc::new(INode::new(path))) on the vacant
\* entry, then clone, return, drop the guard
CreateInsert(t) ==
    /\ Running
    /\ tasks[t].pc = "create_new"
    /\ LET d == tasks[t].fs
           p == tasks[t].loc.path
           i == Len(inodes) + 1
       IN  /\ inodes' = Append(inodes, INodeNew(p))
           /\ disks' = [disks EXCEPT ![d].fs[p] = i, ![d].lock = NoTask]
           /\ tasks' = [tasks EXCEPT ![t] =
                           Return(t, [tasks[t] EXCEPT !.file = i,
                                                     !.can_write = TRUE])]
           /\ created' = created \cup {<<d, p>>}
    /\ last' = Result(t, "create", "Ok")
    /\ UNCHANGED <<handles, handles_lock, block_on, context>>

\* Fault: the inode dies with its last handle: the path's entry is removed.
DropFile_Unlink(t) ==
    /\ Running
    /\ tasks[t].pc = "idle"
    /\ tasks[t].file # 0
    /\ tasks' = [tasks EXCEPT ![t].file = 0, ![t].can_write = FALSE]
    /\ disks' = IF \E u \in Task \ {t} : tasks[u].file = tasks[t].file
                THEN disks
                ELSE [d \in 1..Len(disks) |->
                        [disks[d] EXCEPT !.fs = [p \in Path |->
                            IF disks[d].fs[p] = tasks[t].file THEN 0
                            ELSE disks[d].fs[p]]]]
    /\ UNCHANGED <<handles, handles_lock, inodes, last, created, block_on, context>>

\* drop(file), as in the test at line 182: the task releases its File
DropFile(t) ==
    /\ Running
    /\ tasks[t].pc = "idle"
    /\ tasks[t].file # 0
    /\ tasks' = [tasks EXCEPT ![t].file = 0, ![t].can_write = FALSE]
    /\ UNCHANGED <<handles, handles_lock, disks, inodes, last, created, block_on, context>>

-----------------------------------------------------------------------------
(* File::read_at, lines 110-123 *)

\* A panic unwinds the task that called: its handles are dropped and it runs
\* no further; the other tasks and the filesystem go on.
Panicked == NotSpawned

\* line 117: data.read().unwrap(); a poisoned lock makes unwrap panic
ReadLock(t, buf, offset) ==
    /\ Running
    /\ tasks[t].pc = "idle"
    /\ tasks[t].file # 0
    /\ CanRead(tasks[t].file)
    /\ LET i == tasks[t].file
       IN  IF inodes[i].poisoned
           THEN /\ tasks' = [tasks EXCEPT ![t] = Panicked]
                /\ last' = FileResult(t, "read_at", "Panic", i, offset, buf, 0)
                /\ UNCHANGED inodes
           ELSE /\ inodes' = [inodes EXCEPT ![i].readers = @ \cup {t}]
                /\ tasks' = [tasks EXCEPT ![t].pc = "read", ![t].loc.buf = buf,
                                          ![t].loc.offset = offset]
                /\ UNCHANGED last
    /\ UNCHANGED <<handles, handles_lock, disks, created, block_on, context>>

\* lines 118-122: copy out and return the count, or panic; the read guard is
\* dropped either way and a read guard never poisons
ReadCopy(t) ==
    /\ Running
    /\ tasks[t].pc = "read"
    /\ LET i == tasks[t].file
           r == ReadAt(inodes[i].data, tasks[t].loc.buf, tasks[t].loc.offset)
       IN  /\ inodes' = [inodes EXCEPT ![i].readers = @ \ {t}]
           /\ IF r.res = "Panic"
              THEN /\ tasks' = [tasks EXCEPT ![t] = Panicked]
                   /\ last' = FileResult(t, "read_at", "Panic", i, tasks[t].loc.offset,
                                       tasks[t].loc.buf, 0)
              ELSE /\ tasks' = [tasks EXCEPT ![t] = Return(t, tasks[t])]
                   /\ last' = FileResult(t, "read_at", "Ok", i, tasks[t].loc.offset,
                                       r.buf, r.n)
    /\ UNCHANGED <<handles, handles_lock, disks, created, block_on, context>>

-----------------------------------------------------------------------------
(* File::write_all_at, lines 125-148 *)

\* Fault: the permission check comes after the bytes were stored.
WriteDenied_Writes(t, buf, offset) ==
    /\ Running
    /\ tasks[t].pc = "idle"
    /\ tasks[t].file # 0
    /\ ~tasks[t].can_write
    /\ inodes' = [inodes EXCEPT ![tasks[t].file].data = buf]
    /\ tasks' = [tasks EXCEPT ![t] = Return(t, tasks[t])]
    /\ last' = FileResult(t, "write_all_at", "PermissionDenied", tasks[t].file,
                        offset, buf, 0)
    /\ UNCHANGED <<handles, handles_lock, disks, created, block_on, context>>

\* lines 132-137: a read-only handle is refused before any lock is taken
WriteDenied(t, buf, offset) ==
    /\ Running
    /\ tasks[t].pc = "idle"
    /\ tasks[t].file # 0
    /\ ~tasks[t].can_write
    /\ tasks' = [tasks EXCEPT ![t] = Return(t, tasks[t])]
    /\ last' = FileResult(t, "write_all_at", "PermissionDenied", tasks[t].file,
                        offset, buf, 0)
    /\ UNCHANGED <<handles, handles_lock, disks, inodes, created, block_on, context>>

\* lines 138-142: data.write().unwrap(), then overwrite the part of the
\* region that exists. A poisoned lock makes unwrap panic; the panic of line
\* 140/141 drops the write guard during unwinding, which poisons the lock.
\* When all of buf has landed the guard is dropped and the call returns.
WriteCopy(t, buf, offset) ==
    /\ Running
    /\ tasks[t].pc = "idle"
    /\ tasks[t].file # 0
    /\ tasks[t].can_write
    /\ CanWrite(tasks[t].file)
    /\ LET i == tasks[t].file
           len == WriteOverlap(inodes[i].data, buf, offset)
       IN  /\ len < 0 \/ offset + Len(buf) <= MaxLen
           /\ IF inodes[i].poisoned
              THEN /\ tasks' = [tasks EXCEPT ![t] = Panicked]
                   /\ last' = FileResult(t, "write_all_at", "Panic", i, offset, buf, 0)
                   /\ UNCHANGED inodes
              ELSE IF len < 0
              THEN /\ inodes' = [inodes EXCEPT ![i].poisoned = TRUE]
                   /\ tasks' = [tasks EXCEPT ![t] = Panicked]
                   /\ last' = FileResult(t, "write_all_at", "Panic", i, offset, buf, 0)
              ELSE IF len < Len(buf)
              THEN /\ inodes' = [inodes EXCEPT ![i].data =
                                    WriteCopyFromSlice(@, buf, offset, len),
                                               ![i].writer = t]
                   /\ tasks' = [tasks EXCEPT ![t].pc = "write_ext",
                                             ![t].loc.buf = buf,
                                             ![t].loc.offset = offset,
                                             ![t].loc.old = inodes[i].data]
                   /\ UNCHANGED last
              ELSE /\ inodes' = [inodes EXCEPT ![i].data =
                                    WriteCopyFromSlice(@, buf, offset, len)]
                   /\ tasks' = [tasks EXCEPT ![t] = Return(t, tasks[t])]
                   /\ last' = FileResult(t, "write_all_at", "Ok", i, offset, buf, 0)
    /\ UNCHANGED <<handles, handles_lock, disks, created, block_on, context>>

\* Fault: the write of a killed task is abandoned between the overwrite and
\* the append.
WriteExtend_Cancelled(t) ==
    /\ Running
    /\ tasks[t].pc = "write_ext"
    /\ LET i == tasks[t].file
           buf == tasks[t].loc.buf
           len == WriteOverlap(inodes[i].data, buf, tasks[t].loc.offset)
       IN  inodes' = [inodes EXCEPT ![i].data = IF tasks[t].doomed THEN @
                                                ELSE WriteExtendFromSlice(@, buf, len),
                                    ![i].writer = NoTask]
    /\ tasks' = [tasks EXCEPT ![t] = Return(t, tasks[t])]
    /\ last' = FileResult(t, "write_all_at", "Ok", tasks[t].file,
                        tasks[t].loc.offset, tasks[t].loc.buf, 0)
    /\ UNCHANGED <<handles, handles_lock, disks, created, block_on, context>>

\* lines 143-147: append the rest of buf, return, drop the write guard
WriteExtend(t) ==
    /\ Running
    /\ tasks[t].pc = "write_ext"
    /\ LET i == tasks[t].file
           buf == tasks[t].loc.buf
           len == WriteOverlap(inodes[i].data, buf, tasks[t].loc.offset)
       IN  inodes' = [inodes EXCEPT ![i].data = WriteExtendFromSlice(@, buf, len),
                                    ![i].writer = NoTask]
    /\ tasks' = [tasks EXCEPT ![t] = Return(t, tasks[t])]
    /\ last' = FileResult(t, "write_all_at", "Ok", tasks[t].file,
                        tasks[t].loc.offset, tasks[t].loc.buf, 0)
    /\ UNCHANGED <<handles, handles_lock, disks, created, block_on, context>>

-----------------------------------------------------------------------------
(* File::set_len, lines 150-155 *)

\* lines 152-154: data.write().unwrap(), resize, return; the handle's
\* permission is not looked at
SetLen(t, size) ==
    /\ Running
    /\ tasks[t].pc = "idle"
    /\ tasks[t].file # 0
    /\ CanWrite(tasks[t].file)
    /\ LET i == tasks[t].file
       IN  IF inodes[i].poisoned
           THEN /\ tasks' = [tasks EXCEPT ![t] = Panicked]
                /\ last' = FileResult(t, "set_len", "Panic", i, size, <<>>, 0)
                /\ UNCHANGED inodes
           ELSE /\ inodes' = [inodes EXCEPT ![i].data = Resize(@, size)]
                /\ tasks' = [tasks EXCEPT ![t] = Return(t, tasks[t])]
                /\ last' = FileResult(t, "set_len", "Ok", i, size, <<>>, 0)
    /\ UNCHANGED <<handles, handles_lock, disks, created, block_on, context>>

-----------------------------------------------------------------------------
(* Handle::kill, lines 81-85 *)

\* TaskHandle::kill: the tasks of the address are dropped; one that is inside
\* an operation is dropped when that operation returns.
TaskKill(ts, a) ==
    [t \in Task |->
        IF Owner(t) # a \/ ts[t].pc = "none" THEN ts[t]
        ELSE IF ts[t].pc = "idle" THEN NotSpawned
        ELSE [ts[t] EXCEPT !.doomed = TRUE]]

\* Fault: kill also runs the power failure and discards the address's disk.
Kill_PowerFail(a) ==
    /\ Running
    /\ tasks' = TaskKill(tasks, a)
    /\ handles' = [handles EXCEPT ![a] = 0]
    /\ UNCHANGED <<handles_lock, disks, inodes, last, created, block_on, context>>

\* line 82 only: the calls on the network and on the filesystem (power_fail)
\* are commented out, so the registry, the disks and the inodes are not touched
Kill(a) ==
    /\ Running
    /\ tasks' = TaskKill(tasks, a)
    /\ UNCHANGED <<handles, handles_lock, disks, inodes, last, created, block_on, context>>

-----------------------------------------------------------------------------
\* The entry into block_on, one step of one task, or a kill, with the callers'
\* inputs drawn from the given sets.
Steps(T, A, P, RB, WB, Off, Sz) ==
    \/ BlockOnEnter
    \/ \E t \in T : Spawn(t)
    \/ \E t \in T, a \in A : HandleEntry(t, a)
    \/ \E t \in T : HandleInsert(t)
    \/ \E t \in T, p \in P : Open(t, p)
    \/ \E t \in T, p \in P : CreateEntry(t, p)
    \/ \E t \in T : CreateInsert(t)
    \/ \E t \in T : DropFile(t)
    \/ \E t \in T, buf \in RB, offset \in Off : ReadLock(t, buf, offset)
    \/ \E t \in T : ReadCopy(t)
    \/ \E t \in T, buf \in WB, offset \in Off : WriteDenied(t, buf, offset)
    \/ \E t \in T, buf \in WB, offset \in Off : WriteCopy(t, buf, offset)
    \/ \E t \in T : WriteExtend(t)
    \/ \E t \in T, size \in Sz : SetLen(t, size)
    \/ \E a \in A : Kill(a)

\* Two tasks on two disks, interleaved at every step inside a critical
\* section, with one path, one read buffer, one payload, one offset, one size.
ConcPaths == {"p1"}
ConcReadBufs == {<<0, 0>>}
ConcWriteBufs == {<<1, 1>>}
ConcOffsets == {0}
ConcSizes == {0}

Next == Steps(Task, Addr, ConcPaths, ConcReadBufs, ConcWriteBufs, ConcOffsets,
              ConcSizes)

Spec == Init /\ [][Next]_vars

\* One task on one disk, with every payload, buffer, offset and size.
NextFile == Steps({"t1"}, {"a1"}, {"p1"}, ReadBufs, Bufs, 0..MaxLen, 0..MaxLen)

SpecFile == Init /\ [][NextFile]_vars

\* Two tasks on the files of one disk, interleaved at every step: a size that
\* leaves one byte, so that a write of two bytes overwrites and then appends,
\* and an offset past the end of the empty file.
InodeSizes == {1}
InodeOffsets == {0, 1}

NextInode == Steps(Task, {"a1"}, ConcPaths, ConcReadBufs, ConcWriteBufs,
                   InodeOffsets, InodeSizes)

SpecInode == Init /\ [][NextInode]_vars

\* One task on one disk, with block_on returning and being called again, and
\* Handle::current called inside and outside of it.
NextContext ==
    \/ Steps({"t1"}, {"a1"}, ConcPaths, ConcReadBufs, ConcWriteBufs, InodeOffsets,
             InodeSizes)
    \/ BlockOnExit
    \/ BlockOnUnwind
    \/ Current

SpecContext == Init /\ [][NextContext]_vars

-----------------------------------------------------------------------------
(* Properties *)

\* The content behind the File the task holds.
FileData(t) == inodes[tasks[t].file].data

\* The steps of a call by task t, whatever its arguments: they are read off
\* the state the step leaves, from the locals of a call that goes on or from
\* last when the call returns in this step.
OpenCall(t) == \E p \in Path : Open(t, p)

CreateCall(t) == (\E p \in Path : CreateEntry(t, p)) \/ CreateInsert(t)

ReadStart(t) ==
    \/ ReadLock(t, tasks'[t].loc.buf, tasks'[t].loc.offset)
    \/ ReadLock(t, last'.buf, last'.offset)

\* A write that returns from its first step: nothing is left to append.
WriteReturn(t) ==
    /\ tasks'[t].pc # "write_ext"
    /\ WriteCopy(t, last'.buf, last'.offset)

\* A write whose first step leaves bytes to append.
WritePending(t) ==
    /\ tasks'[t].pc = "write_ext"
    /\ WriteCopy(t, tasks'[t].loc.buf, tasks'[t].loc.offset)

WriteCall(t) ==
    \/ WriteDenied(t, last'.buf, last'.offset)
    \/ WriteReturn(t)
    \/ WritePending(t)
    \/ WriteExtend(t)

SetLenCall(t) == SetLen(t, last'.offset)

\* C1: open(P) on a disk on which no create(P) has returned fails with
\* NotFound, and the failing open inserts nothing: the path maps and the
\* inodes are the same before and after the call.
C1_OpenNotFound ==
    [][\A t \in Task, p \in Path :
          (Open(t, p) /\ <<tasks[t].fs, p>> \notin created)
              => /\ last'.op = "open"
                 /\ last'.res = "NotFound"
                 /\ disks' = disks
                 /\ inodes' = inodes]_vars

\* An open has just failed on one disk while the other disk has the file.
C1_Witness ==
    /\ last.op = "open"
    /\ last.res = "NotFound"
    /\ Len(inodes) > 0
    /\ tasks[last.t].pc = "idle"
    /\ disks[tasks[last.t].fs].fs = [p \in Path |-> 0]

\* C2: read_at never fails and returns n = min(buf.len(), max(0, len - offset))
\* bytes, which are content[offset .. offset+n]; the rest of the buffer is left
\* as it was; at or past the end of the content the result is 0, not an error.
C2_ReadAtTotal ==
    [][\A t \in Task :
          /\ ReadStart(t) => tasks'[t].pc = "read"
          /\ ReadCopy(t) =>
                LET data == FileData(t)
                    buf == tasks[t].loc.buf
                    offset == tasks[t].loc.offset
                    n == Min(Len(buf), Max(0, Len(data) - offset))
                IN  /\ last'.op = "read_at"
                    /\ last'.res = "Ok"
                    /\ last'.n = n
                    /\ Len(last'.buf) = Len(buf)
                    /\ \A k \in 1..Len(buf) :
                          last'.buf[k] = IF k <= n THEN data[offset + k] ELSE buf[k]]_vars

\* C3: write_all_at through a read-only handle fails with PermissionDenied for
\* every payload and offset and leaves every inode's bytes and length alone.
C3_ReadOnlyWriteDenied ==
    [][\A t \in Task :
          (~tasks[t].can_write /\ WriteCall(t))
              => /\ last'.op = "write_all_at"
                 /\ last'.res = "PermissionDenied"
                 /\ last'.t = t
                 /\ inodes' = inodes]_vars

\* A non-empty payload has just been refused on a file that has other content.
C3_Witness ==
    /\ last.op = "write_all_at"
    /\ last.res = "PermissionDenied"
    /\ Len(last.buf) > 0
    /\ Len(inodes[last.file].data) > 0
    /\ inodes[last.file].data # last.buf

\* What C4 says the content is after write_all_at(buf, offset) on old.
SplicedContent(old, buf, offset) ==
    SubSeq(old, 1, offset) \o buf \o SubSeq(old, offset + Len(buf) + 1, Len(old))

\* C4: write_all_at(buf, offset) through a read-write handle with offset at
\* most the current length succeeds and leaves old[0..offset] ++ buf ++
\* old[offset+len(buf)..], of length max(old length, offset + len(buf)).
C4_WriteSplices ==
    [][\A t \in Task :
          /\ (WriteReturn(t) /\ last'.offset <= Len(FileData(t)))
                => /\ last'.op = "write_all_at"
                   /\ last'.res = "Ok"
                   /\ inodes'[tasks[t].file].data =
                         SplicedContent(FileData(t), last'.buf, last'.offset)
                   /\ Len(inodes'[tasks[t].file].data) =
                         Max(Len(FileData(t)), last'.offset + Len(last'.buf))
          /\ WriteExtend(t) =>
                LET old == tasks[t].loc.old
                    buf == tasks[t].loc.buf
                    offset == tasks[t].loc.offset
                IN  /\ offset <= Len(old)
                    /\ last'.op = "write_all_at"
                    /\ last'.res = "Ok"
                    /\ inodes'[tasks[t].file].data = SplicedContent(old, buf, offset)
                    /\ Len(inodes'[tasks[t].file].data) =
                          Max(Len(old), offset + Len(buf))]_vars

\* C5: set_len(size) succeeds and leaves exactly size bytes: the old content's
\* first size bytes when it truncates, the old content followed by zeros when
\* it extends.
C5_SetLen ==
    [][\A t \in Task :
          SetLenCall(t) =>
              LET old == FileData(t)
                  new == inodes'[tasks[t].file].data
                  size == last'.offset
              IN  /\ last'.op = "set_len"
                  /\ last'.res = "Ok"
                  /\ Len(new) = size
                  /\ \A k \in 1..size :
                        new[k] = IF k <= Len(old) THEN old[k] ELSE 0]_vars

\* The <<disk, path>> entries that refer to inode i.
InodeSlots(i) ==
    {s \in (1..Len(disks)) \X Path : disks[s[1]].fs[s[2]] = i}

\* C6: create(P) is idempotent under every interleaving: each inode ever made
\* is the entry of exactly one <<disk, path>>; a create handed an existing
\* entry binds to that inode and changes no inode and no path map; the handle
\* returned is read-write and bound to the entry; a read through one handle
\* returns the bytes another task has just written through its own.
C6_CreateIdempotent ==
    [][/\ \A i \in 1..Len(inodes') : Cardinality(InodeSlots(i)') = 1
       /\ \A t \in Task, p \in Path :
             (CreateEntry(t, p) /\ disks[tasks[t].fs].fs[p] # 0)
                 => /\ inodes' = inodes
                    /\ disks' = disks
                    /\ last'.op = "create" /\ last'.res = "Ok"
                    /\ ~tasks[t].doomed =>
                          /\ tasks'[t].file = disks[tasks[t].fs].fs[p]
                          /\ tasks'[t].can_write
       /\ \A t \in Task :
             CreateInsert(t) =>
                 /\ [k \in 1..Len(inodes) |-> inodes'[k]] = inodes
                 /\ <<tasks[t].fs, tasks[t].loc.path>> \notin created
                 /\ last'.op = "create" /\ last'.res = "Ok"
                 /\ ~tasks[t].doomed =>
                       /\ tasks'[t].file = disks'[tasks[t].fs].fs[tasks[t].loc.path]
                       /\ tasks'[t].can_write
       /\ \A t \in Task :
             (/\ tasks[t].can_write
              /\ last.op = "write_all_at" /\ last.res = "Ok"
              /\ last.t # t
              /\ last.file = tasks[t].file
              /\ tasks[t].loc.offset = last.offset
              /\ ReadCopy(t))
                 => /\ last'.res = "Ok"
                    /\ last'.n = Min(Len(tasks[t].loc.buf), Len(last.buf))
                    /\ \A k \in 1..last'.n : last'.buf[k] = last.buf[k]]_vars

\* Both tasks hold read-write handles on the one inode of a path, and one of
\* them is reading what the other has just written.
C6_Witness ==
    /\ Len(inodes) = 1
    /\ tasks["t1"].file = 1 /\ tasks["t1"].can_write
    /\ tasks["t2"].file = 1 /\ tasks["t2"].can_write
    /\ tasks["t2"].pc = "read"
    /\ last.op = "write_all_at" /\ last.res = "Ok" /\ last.t = "t1"
    /\ inodes[1].data = <<1, 1>>

\* C7: handle(address) is an atomic lookup-or-insert: every disk ever made is
\* the registry's entry of its address (so at most one per address, never
\* replaced), an entry once set stays, the first access makes an empty disk,
\* and an access that finds an entry returns that disk and makes nothing.
C7_HandleAtomic ==
    [][/\ \A d \in 1..Len(disks') : handles'[disks'[d].addr] = d
       /\ \A a \in Addr : handles[a] # 0 => handles'[a] = handles[a]
       /\ \A t \in Task, a \in Addr :
             (handles[a] # 0 /\ HandleEntry(t, a))
                 => /\ disks' = disks
                    /\ last'.op = "handle" /\ last'.res = "Ok"
                    /\ ~tasks[t].doomed => tasks'[t].fs = handles[a]
       /\ \A t \in Task :
             HandleInsert(t) =>
                 /\ Len(disks') = Len(disks) + 1
                 /\ disks'[Len(disks')].fs = [p \in Path |-> 0]
                 /\ disks'[Len(disks')].addr = tasks[t].loc.addr
                 /\ ~tasks[t].doomed => tasks'[t].fs = handles'[tasks[t].loc.addr]]_vars

\* Both addresses have their disk, and handle() has just given one task the
\* disk the other task holds.
C7_Witness ==
    /\ tasks["t1"].fs # 0
    /\ tasks["t1"].fs = tasks["t2"].fs
    /\ last.op = "handle"
    /\ Len(disks) = 2

\* The path map and the file contents of an address's disk.
PathMap(a) ==
    IF handles[a] = 0 THEN [p \in Path |-> 0] ELSE disks[handles[a]].fs

Content(a) ==
    [p \in Path |-> IF PathMap(a)[p] = 0 THEN <<>> ELSE inodes[PathMap(a)[p]].data]

\* A step of open or create through the disk of address a.
DiskStep(t, a) ==
    /\ handles[a] # 0
    /\ tasks[t].fs = handles[a]
    /\ OpenCall(t) \/ CreateCall(t)

\* A step of read_at, write_all_at or set_len on a file of address a's disk.
FileStep(t, a) ==
    /\ tasks[t].file # 0
    /\ \E p \in Path : PathMap(a)[p] = tasks[t].file
    /\ ReadStart(t) \/ ReadCopy(t) \/ WriteCall(t) \/ SetLenCall(t)

\* C8: disks of different addresses are isolated: a step that changes B's
\* path map or the content of B's files is no step of open, create, read_at,
\* write_all_at or set_len through the disk of another address A, and open(P)
\* on B fails while B has no P, whatever A has.
C8_DisksIsolated ==
    [][\A b \in Addr, t \in Task :
          /\ (PathMap(b)' # PathMap(b) \/ Content(b)' # Content(b))
                => ~ \E a \in Addr \ {b} : DiskStep(t, a) \/ FileStep(t, a)
          /\ \A p \in Path :
                (tasks[t].fs = handles[b] /\ PathMap(b)[p] = 0 /\ Open(t, p))
                    => last'.res = "NotFound"]_vars

\* a1's disk has a file with content, a2's disk exists and has none, and an
\* open on a2's disk has just failed.
C8_Witness ==
    /\ handles["a1"] # 0 /\ handles["a2"] # 0
    /\ Content("a1")["p1"] = <<1, 1>>
    /\ PathMap("a2") = [p \in Path |-> 0]
    /\ last.op = "open" /\ last.res = "NotFound"

\* C9: after a successful write_all_at(bytes, offset), with no call returning
\* in between, read_at with a buffer of length L at an offset o inside the
\* written region returns min(L, file length - o) bytes, and those of them
\* that lie in the region are the bytes just written.
C9_WriteThenRead ==
    [][\A t \in Task :
          (/\ last.op = "write_all_at" /\ last.res = "Ok"
           /\ last.file = tasks[t].file
           /\ last.offset <= tasks[t].loc.offset
           /\ tasks[t].loc.offset < last.offset + Len(last.buf)
           /\ ReadCopy(t))
              => LET o == tasks[t].loc.offset
                 IN  /\ last'.op = "read_at"
                     /\ last'.res = "Ok"
                     /\ last'.n = Min(Len(tasks[t].loc.buf), Len(FileData(t)) - o)
                     /\ \A k \in 1..last'.n :
                           o + k <= last.offset + Len(last.buf)
                              => last'.buf[k] = last.buf[o + k - last.offset]]_vars

\* The test's case, scaled: two bytes were written at 0 and a buffer longer
\* than what is left is about to be filled from offset 1.
C9_Witness ==
    \E t \in Task :
        /\ tasks[t].pc = "read"
        /\ last.op = "write_all_at" /\ last.res = "Ok"
        /\ last.file = tasks[t].file
        /\ last.offset = 0 /\ Len(last.buf) = 2 /\ last.buf[1] # last.buf[2]
        /\ tasks[t].loc.offset = 1
        /\ Len(tasks[t].loc.buf) = 2
        /\ Len(FileData(t)) = 2

\* C10: kill(address) only drops that address's tasks: the registry, the
\* disks, the inodes and their bytes are what they were, and so are the tasks
\* of every other address.
C10_KillKeepsDisks ==
    [][\A a \in Addr :
          Kill(a) =>
             /\ handles' = handles
             /\ disks' = disks
             /\ inodes' = inodes
             /\ \A t \in Task :
                   IF Owner(t) = a
                   THEN tasks'[t] \in {tasks[t], NotSpawned,
                                       [tasks[t] EXCEPT !.doomed = TRUE]}
                   ELSE tasks'[t] = tasks[t]]_vars

\* t1, of a1, wrote a file on a1's disk and was then killed: the task is gone,
\* the disk and the bytes are there, and t2, of a2, holds the same disk.
C10_Witness ==
    /\ tasks["t1"].pc = "none"
    /\ last.t = "t1" /\ last.op = "write_all_at" /\ last.res = "Ok"
    /\ handles["a1"] # 0
    /\ Content("a1")["p1"] = <<1, 1>>
    /\ tasks["t2"].fs = handles["a1"]

\* The tasks that have overwritten part of inode i and not yet appended the
\* rest: while there is one, the content of i is that of a write half applied.
MidWrite(i) == {u \in Task : tasks[u].pc = "write_ext" /\ tasks[u].file = i}

\* C11: kill(address) never produces a torn write: a task killed inside the
\* inode's exclusive section stays there and its write completes with the
\* whole payload applied, a task killed before it entered is dropped with
\* nothing written, and no read copies the content while a write is half
\* applied.
C11_KillNoTornWrite ==
    [][/\ \A a \in Addr :
             Kill(a) =>
                 \A t \in Task :
                     /\ inodes' = inodes
                     /\ (Owner(t) = a /\ tasks[t].pc = "write_ext")
                           => /\ tasks'[t].pc = "write_ext"
                              /\ tasks'[t].loc = tasks[t].loc
                              /\ inodes'[tasks[t].file].writer = t
                     /\ (Owner(t) = a /\ tasks[t].pc = "idle")
                           => tasks'[t] = NotSpawned
       /\ \A t \in Task :
             (tasks[t].doomed /\ WriteExtend(t))
                 => /\ inodes'[tasks[t].file].data =
                          SplicedContent(tasks[t].loc.old, tasks[t].loc.buf,
                                         tasks[t].loc.offset)
                    /\ inodes'[tasks[t].file].writer = NoTask
                    /\ tasks'[t] = NotSpawned
       /\ \A t \in Task :
             (ReadStart(t) \/ ReadCopy(t)) => MidWrite(tasks[t].file) = {}]_vars

\* t1 was killed after it had overwritten the one byte the file had and
\* before it appended the second: it is still inside the exclusive section,
\* and t2 holds a handle on the same file.
C11_Witness ==
    /\ tasks["t1"].pc = "write_ext"
    /\ tasks["t1"].doomed
    /\ tasks["t1"].loc.old = <<0>>
    /\ FileData("t1") = <<1>>
    /\ tasks["t2"].pc = "idle"
    /\ tasks["t2"].file = tasks["t1"].file

\* C12: the ambient context is scoped to the driving call: the cell holds the
\* Handle exactly while a block_on call is active, it is cleared when the call
\* returns and when a panic of the work unwinds it, and Handle::current gives
\* the Handle inside a call and fails, fatally, at every other time.
C12_ContextScoped ==
    [][/\ (context' # NoContext) <=> block_on'
       /\ BlockOnEnter => context' = "handle"
       /\ (BlockOnExit \/ BlockOnUnwind) => (~block_on' /\ context' = NoContext)
       /\ Current =>
             /\ last'.op = "current"
             /\ last'.res = IF block_on THEN "Ok" ELSE "Panic"]_vars

\* Work ran inside a block_on call that has returned, and Handle::current,
\* called after it, has just failed.
C12_Witness ==
    /\ ~block_on
    /\ context = NoContext
    /\ Len(inodes) > 0
    /\ tasks["t1"].pc = "idle"
    /\ tasks["t1"].file # 0
    /\ last.op = "current"
    /\ last.res = "Panic"

\* The tasks inside read_at on inode i.
InRead(i) == {u \in Task : tasks[u].pc = "read" /\ tasks[u].file = i}

\* C14: single writer or many readers per inode: at most one task is inside a
\* write section of an inode, and then none is inside read_at on it and the
\* lock records that task; no read enters or copies while a write is half
\* applied; while a task is inside its write nothing but its own completion
\* changes the bytes, so that the write lands whole on the content it found
\* and concurrent writes take effect one after the other.
C14_SingleWriterManyReaders ==
    [][\A i \in 1..Len(inodes') :
          /\ Cardinality(MidWrite(i)') <= 1
          /\ MidWrite(i)' # {} => InRead(i)' = {}
          /\ \A u \in MidWrite(i)' : inodes'[i].writer = u
          /\ InRead(i)' = inodes'[i].readers
          /\ i <= Len(inodes) =>
                /\ \A u \in MidWrite(i) :
                      /\ inodes'[i].data # inodes[i].data => WriteExtend(u)
                      /\ WriteExtend(u) =>
                            inodes'[i].data =
                                SplicedContent(tasks[u].loc.old, tasks[u].loc.buf,
                                               tasks[u].loc.offset)
                /\ \A u \in InRead(i) :
                      inodes'[i].data = inodes[i].data]_vars

\* t1 is inside its write, between the overwrite and the append, on the file
\* on which t2's set_len has just returned; t2 still holds the file.
C14_Witness ==
    /\ tasks["t1"].pc = "write_ext"
    /\ inodes[tasks["t1"].file].writer = "t1"
    /\ FileData("t1") # tasks["t1"].loc.old
    /\ last.t = "t2" /\ last.op = "set_len" /\ last.res = "Ok"
    /\ last.file = tasks["t1"].file
    /\ tasks["t2"].file = tasks["t1"].file

\* C15: write_all_at(bytes, offset) through a read-write handle with offset
\* past the current length succeeds, overwrites nothing and appends the
\* payload right after the existing content, with no zero-filled gap.
C15_WritePastEndAppends ==
    [][\A t \in Task :
          (/\ tasks[t].can_write
           /\ WriteReturn(t) \/ WritePending(t)
           /\ LET offset == IF WritePending(t) THEN tasks'[t].loc.offset
                            ELSE last'.offset
              IN  offset > Len(FileData(t)))
              => /\ last'.op = "write_all_at"
                 /\ last'.res = "Ok"
                 /\ inodes'[tasks[t].file].data = FileData(t) \o last'.buf]_vars

\* C16: a handle's permission is fixed when the handle is made: open returns
\* a read-only handle and create a read-write one, each bound to the path's
\* inode; a task that keeps its handle over a step keeps the permission; and a
\* read through a read-only handle returns the bytes another task has just
\* written to the same inode through its read-write handle.
C16_PermissionFixed ==
    [][\A t \in Task :
          /\ (OpenCall(t) /\ last'.res = "Ok" /\ ~tasks[t].doomed)
                => /\ ~tasks'[t].can_write
                   /\ tasks'[t].file # 0
                   /\ \E p \in Path : disks[tasks[t].fs].fs[p] = tasks'[t].file
          /\ (CreateCall(t) /\ tasks'[t].pc = "idle")
                => /\ tasks'[t].can_write
                   /\ tasks'[t].file # 0
                   /\ \E p \in Path : disks'[tasks[t].fs].fs[p] = tasks'[t].file
          /\ (tasks[t].file # 0 /\ tasks'[t].file # 0
                /\ ~(OpenCall(t) \/ CreateCall(t)))
                => /\ tasks'[t].file = tasks[t].file
                   /\ tasks'[t].can_write = tasks[t].can_write
          /\ (/\ ~tasks[t].can_write
              /\ last.op = "write_all_at" /\ last.res = "Ok"
              /\ last.t # t
              /\ last.file = tasks[t].file
              /\ tasks[t].loc.offset = last.offset
              /\ ReadCopy(t))
                => /\ last'.res = "Ok"
                   /\ last'.n = Min(Len(tasks[t].loc.buf), Len(last.buf))
                   /\ \A k \in 1..last'.n : last'.buf[k] = last.buf[k]]_vars

\* t1 holds the read-write handle create gave it and has just written through
\* it; t2 holds a read-only handle on the same inode and is reading.
C16_Witness ==
    /\ tasks["t1"].can_write
    /\ tasks["t1"].file # 0
    /\ tasks["t2"].file = tasks["t1"].file
    /\ ~tasks["t2"].can_write
    /\ tasks["t2"].pc = "read"
    /\ last.t = "t1" /\ last.op = "write_all_at" /\ last.res = "Ok"
    /\ FileData("t2") = <<1, 1>>

\* C17: an inode outlives its handles: dropping a handle changes no path map
\* and no inode; no step removes or replaces a path's entry; the bytes of an
\* inode change only in a write_all_at or set_len through a handle on it; and
\* open(P) on a disk on which create(P) has returned succeeds, bound to the
\* path's inode.
C17_InodeOutlivesHandles ==
    [][/\ \A t \in Task : DropFile(t) => (disks' = disks /\ inodes' = inodes)
       /\ \A d \in 1..Len(disks), p \in Path :
             disks[d].fs[p] # 0 => disks'[d].fs[p] = disks[d].fs[p]
       /\ \A i \in 1..Len(inodes) :
             inodes'[i].data # inodes[i].data
                => \E t \in Task : /\ tasks[t].file = i
                                   /\ WriteCall(t) \/ SetLenCall(t)
       /\ \A t \in Task, p \in Path :
             (<<tasks[t].fs, p>> \in created /\ Open(t, p))
                => /\ last'.op = "open" /\ last'.res = "Ok"
                   /\ inodes' = inodes
                   /\ ~tasks[t].doomed =>
                         /\ tasks'[t].file = disks[tasks[t].fs].fs[p]
                         /\ inodes'[tasks'[t].file].data =
                               inodes[disks[tasks[t].fs].fs[p]].data]_vars

\* No task holds a handle on the one file there is, which has the bytes
\* written to it, and open is about to be called on its disk.
C17_Witness ==
    /\ Len(inodes) = 1
    /\ inodes[1].data = <<1, 0>>
    /\ \A t \in Task : tasks[t].file = 0
    /\ tasks["t1"].pc = "idle"
    /\ tasks["t1"].fs # 0
    /\ <<tasks["t1"].fs, "p1">> \in created

\* C18: read-only handles cannot mutate: a step of read_at, write_all_at or
\* set_len through a handle obtained from open leaves the bytes and the
\* length of every inode as they were.
C18_ReadOnlyCannotMutate ==
    [][\A t \in Task :
          (/\ tasks[t].file # 0
           /\ ~tasks[t].can_write
           /\ ReadStart(t) \/ ReadCopy(t) \/ WriteCall(t) \/ SetLenCall(t))
              => \A i \in 1..Len(inodes) : inodes'[i].data = inodes[i].data]_vars

\* The locks task t holds: the registry's mutex, the path-map mutex of a disk,
\* the write or the read side of an inode's lock.
LocksHeld(t) ==
    (IF handles_lock = t THEN {<<"handles">>} ELSE {})
        \cup {<<"fs", d>> : d \in {e \in 1..Len(disks) : disks[e].lock = t}}
        \cup {<<"write", i>> : i \in {j \in 1..Len(inodes) : inodes[j].writer = t}}
        \cup {<<"read", i>> : i \in {j \in 1..Len(inodes) : t \in inodes[j].readers}}

\* The one lock the operation task t is inside of holds, none between
\* operations.
LocksOfOperation(t) ==
    CASE tasks[t].pc = "handle_new" -> {<<"handles">>}
      [] tasks[t].pc = "create_new" -> {<<"fs", tasks[t].fs>>}
      [] tasks[t].pc = "write_ext"  -> {<<"write", tasks[t].file>>}
      [] tasks[t].pc = "read"       -> {<<"read", tasks[t].file>>}
      [] OTHER                      -> {}

InOperation(t) == tasks[t].pc \in {"handle_new", "create_new", "write_ext", "read"}

\* The lock discipline alone: a task holds the one lock of the operation it
\* is inside of and no lock between operations.
LockDiscipline == \A t \in Task : LocksHeld(t) = LocksOfOperation(t)

\* C19: no operation holds more than one lock at a time: handle only the
\* registry's, open and create only their disk's path-map lock, read_at,
\* write_all_at and set_len only their inode's, each released when the
\* operation returns; and every operation that starts completes: it returns
\* to its caller and does not end in a panic.
C19_LockDisciplineProgress ==
    [][/\ LockDiscipline'
       /\ \A t \in Task :
             (tasks[t].pc \in {"idle"} \cup {"handle_new", "create_new", "write_ext",
                                            "read"}
                /\ tasks'[t] # tasks[t] /\ last' # last /\ last'.t = t)
                => last'.res # "Panic"]_vars

====
